---- MODULE Spec2Model ----
(***************************************************************************)
(* Model of construct/debug.py: the Probe construct (a zero-size stage     *)
(* that prints the upcoming stream bytes and the context) and the Debugger *)
(* subconstruct (a pdb-based wrapper around one subcon).                   *)
(*                                                                         *)
(* Three specifications share the variables:                               *)
(*   SpecCounter   Probe.__init__ and the class attribute Probe.counter    *)
(*   SpecProbe     Probe._parse / _build / _sizeof on a seekable stream    *)
(*   SpecDebugger  Debugger._parse / _build / handle_exc and the pdb       *)
(*                 session in which the operator may assign self.retval    *)
(***************************************************************************)
EXTENDS Integers, Sequences, FiniteSets, TLC

VARIABLES
    counter,    \* Probe.counter, the class attribute shared by all Probes
    probes,     \* the Probe instances constructed so far, in construction order
    stream,     \* the seekable byte stream: [data, pos]
    context,    \* the context mapping handed to _parse / _build
    out,        \* what the current / last call printed, in order
    last,       \* the Probe method that ran last
    ret,        \* the value the last Probe method returned
    pc,         \* position of the Debugger: "idle" or "session" (inside pdb)
    op,         \* the Debugger method running / run last: "parse" or "build"
    retval,     \* Debugger.retval, the slot declared in __slots__
    exc,        \* sys.exc_info(): the exception being handled
    sub,        \* what the subcon did in the current / last invocation
    result,     \* what the Debugger method delivered to its caller
    written     \* the last value the operator assigned to retval in this session

vars == <<counter, probes, stream, context, out, last, ret,
          pc, op, retval, exc, sub, result, written>>

debugVars == <<pc, op, retval, exc, sub, result, written>>

----------------------------------------------------------------------------
(* Bounds of the model *)

MaxProbes == 11
MaxStreamLen == 3
MaxLookahead == 3

(* Program constants *)

DefaultLookahead == 128
LineSize == 32
SeparatorWidth == 80

ByteVals == {0, 255}

Min(a, b) == IF a < b THEN a ELSE b

----------------------------------------------------------------------------
(* Values *)

\* Python's None / an absent optional string argument.
NoName == [given |-> FALSE, val |-> <<>>]
Named(s) == [given |-> TRUE, val |-> s]

\* "%d" % n : decimal digits of a non-negative integer, most significant first.
DigitChars == <<"0", "1", "2", "3", "4", "5", "6", "7", "8", "9">>

RECURSIVE FormatD(_)
FormatD(n) ==
    IF n < 10 THEN <<DigitChars[n + 1]>>
    ELSE FormatD(n \div 10) \o <<DigitChars[(n % 10) + 1]>>

\* "<unnamed %d>" % n, as a sequence of characters
UnnamedName(n) ==
    <<"<", "u", "n", "n", "a", "m", "e", "d", " ">> \o FormatD(n) \o <<">">>

----------------------------------------------------------------------------
(* The stream: io.BytesIO-like, seekable *)

tell(s) == s.pos

seek(s, p) == [s EXCEPT !.pos = p]

\* read(n): up to n bytes from the cursor; a negative n reads to the end.
\* Returns the bytes and the stream with the cursor advanced.
read(s, n) ==
    LET len   == Len(s.data)
        avail == IF s.pos >= len THEN 0 ELSE len - s.pos
        k     == IF n < 0 THEN avail ELSE Min(n, avail)
    IN  [bytes  |-> SubSeq(s.data, s.pos + 1, s.pos + k),
         stream |-> [s EXCEPT !.pos = s.pos + k]]

----------------------------------------------------------------------------
(* hexdump(data, linesize) of construct.lib: rows of linesize bytes, each  *)
(* row carrying its offset and two hex digits per byte.                    *)

HexChars == <<"0", "1", "2", "3", "4", "5", "6", "7",
              "8", "9", "a", "b", "c", "d", "e", "f">>

HexByte(b) == <<HexChars[(b \div 16) + 1], HexChars[(b % 16) + 1]>>

hexdump(data, linesize) ==
    [i \in 1..((Len(data) + linesize - 1) \div linesize) |->
        [offset |-> (i - 1) * linesize,
         hex    |-> [j \in 1..Min(linesize, Len(data) - (i - 1) * linesize) |->
                        HexByte(data[(i - 1) * linesize + j])]]]

----------------------------------------------------------------------------
(* Probe *)

Separator == [kind |-> "separator", ch |-> "=", width |-> SeparatorWidth]

\* Variant: the class counter is read but never incremented.
Probe_init_counter_noincr(name, cnt) == cnt

\* Probe.__init__: the instance and the class counter after construction.
Probe_init_counter(name, cnt) == IF name.given THEN cnt ELSE cnt + 1

Probe_init(name, show_stream, show_context, show_stack, stream_lookahead, cnt) ==
    [name_arg         |-> name,
     printname        |-> IF name.given THEN name.val
                          ELSE UnnamedName(Probe_init_counter(name, cnt)),
     show_stream      |-> show_stream,
     show_context     |-> show_context,
     show_stack       |-> show_stack,
     stream_lookahead |-> stream_lookahead,
     flagbuildnone    |-> TRUE]

\* Variant: the cursor is not put back after the lookahead read.
printout_noseek(self, s, ctx) ==
    LET rd          == read(s, self.stream_lookahead)
        datafollows == rd.bytes
        s2          == IF self.show_stream THEN rd.stream ELSE s
        dump        == IF ~self.show_stream THEN <<>>
                       ELSE IF datafollows = <<>>
                            THEN <<[kind |-> "eof"]>>
                            ELSE <<[kind |-> "hexdump",
                                    rows |-> hexdump(datafollows, LineSize)]>>
        ctxline     == IF self.show_context
                       THEN <<[kind |-> "context", value |-> ctx]>>
                       ELSE <<>>
    IN  [stream |-> s2,
         out    |-> <<Separator, [kind |-> "header", name |-> self.printname]>>
                    \o dump \o ctxline \o <<Separator>>]

\* Variant: the lookahead is read from the start of the stream, not from
\* the cursor.
printout_fromstart(self, s, ctx) ==
    LET fallback    == tell(s)
        rd          == read(seek(s, 0), self.stream_lookahead)
        datafollows == rd.bytes
        s2          == IF self.show_stream THEN seek(rd.stream, fallback) ELSE s
        dump        == IF ~self.show_stream THEN <<>>
                       ELSE IF datafollows = <<>>
                            THEN <<[kind |-> "eof"]>>
                            ELSE <<[kind |-> "hexdump",
                                    rows |-> hexdump(datafollows, LineSize)]>>
        ctxline     == IF self.show_context
                       THEN <<[kind |-> "context", value |-> ctx]>>
                       ELSE <<>>
    IN  [stream |-> s2,
         out    |-> <<Separator, [kind |-> "header", name |-> self.printname]>>
                    \o dump \o ctxline \o <<Separator>>]

\* Probe.printout: the stream it leaves and the lines it prints.
printout(self, s, ctx) ==
    LET fallback    == tell(s)
        rd          == read(s, self.stream_lookahead)
        datafollows == rd.bytes
        s2          == IF self.show_stream THEN seek(rd.stream, fallback) ELSE s
        dump        == IF ~self.show_stream THEN <<>>
                       ELSE IF datafollows = <<>>
                            THEN <<[kind |-> "eof"]>>
                            ELSE <<[kind |-> "hexdump",
                                    rows |-> hexdump(datafollows, LineSize)]>>
        ctxline     == IF self.show_context
                       THEN <<[kind |-> "context", value |-> ctx]>>
                       ELSE <<>>
    IN  [stream |-> s2,
         out    |-> <<Separator, [kind |-> "header", name |-> self.printname]>>
                    \o dump \o ctxline \o <<Separator>>]

Probe_sizeof(self, ctx) == 0


\* What a Python call hands back: None, or an int.
PyNone == [type |-> "NoneType", val |-> 0]
PyInt(n) == [type |-> "int", val |-> n]

\* Probe._parse / Probe._build: both only call printout and return None.
Probe_parse(self, s, ctx) ==
    LET p == printout(self, s, ctx)
    IN  [stream |-> p.stream, context |-> ctx, out |-> p.out, ret |-> PyNone]

Probe_build(self, obj, s, ctx) ==
    LET p == printout(self, s, ctx)
    IN  [stream |-> p.stream, context |-> ctx, out |-> p.out, ret |-> PyNone]

----------------------------------------------------------------------------
(* Inputs *)

RECURSIVE SeqsUpTo(_, _)
SeqsUpTo(S, n) ==
    IF n = 0 THEN {<<>>}
    ELSE LET shorter == SeqsUpTo(S, n - 1)
         IN  shorter \cup {Append(q, x) : q \in shorter, x \in S}

\* Seekable streams; BytesIO lets the cursor sit past the end.
Streams ==
    {[data |-> d, pos |-> p] :
        d \in SeqsUpTo(ByteVals, MaxStreamLen), p \in 0..(MaxStreamLen + 1)}

\* Ordered mappings, as sequences of (key, value) pairs in insertion order.
Contexts ==
    {<<>>,
     <<[key |-> "a", val |-> 1]>>,
     <<[key |-> "a", val |-> 1], [key |-> "b", val |-> 2]>>}

Lookaheads == (-1)..MaxLookahead

ExplicitNames == {UnnamedName(1)}

NoExc == [cls |-> "", msg |-> ""]
NoSub == [kind |-> "none", val |-> "", exc |-> NoExc,
          stream |-> [data |-> <<>>, pos |-> 0]]
Pending == [kind |-> "pending", val |-> "", exc |-> NoExc]
NoResult == [kind |-> "none", val |-> "", exc |-> NoExc]

DebuggerIdle ==
    /\ pc = "idle"
    /\ op = "none"
    /\ retval = "<unset>"
    /\ exc = NoExc
    /\ sub = NoSub
    /\ result = NoResult
    /\ written = "<none>"

----------------------------------------------------------------------------
(* SpecCounter: constructing Probes *)

InitCounter ==
    /\ counter = 0
    /\ probes = <<>>
    /\ stream = [data |-> <<>>, pos |-> 0]
    /\ context = <<>>
    /\ out = <<>>
    /\ last = "none"
    /\ ret = PyNone
    /\ DebuggerIdle

\* Probe() : every argument at its default
ProbeNew ==
    /\ Len(probes) < MaxProbes
    /\ probes' = Append(probes,
                    Probe_init(NoName, TRUE, TRUE, TRUE, DefaultLookahead, counter))
    /\ counter' = Probe_init_counter(NoName, counter)
    /\ last' = "Probe.__init__"
    /\ UNCHANGED <<stream, context, out, ret>>
    /\ UNCHANGED debugVars

\* Probe(name) : an explicit display name
ProbeNewNamed ==
    /\ Len(probes) < MaxProbes
    /\ \E n \in ExplicitNames :
         /\ probes' = Append(probes,
                         Probe_init(Named(n), TRUE, TRUE, TRUE, DefaultLookahead, counter))
         /\ counter' = Probe_init_counter(Named(n), counter)
    /\ last' = "Probe.__init__"
    /\ UNCHANGED <<stream, context, out, ret>>
    /\ UNCHANGED debugVars

NextCounter == ProbeNew \/ ProbeNewNamed

SpecCounter == InitCounter /\ [][NextCounter]_vars

----------------------------------------------------------------------------
(* SpecProbe: one Probe, of any configuration, called on any stream *)

InitProbe ==
    /\ \E n \in {NoName, Named(<<"p">>)}, ss \in BOOLEAN, sc \in BOOLEAN,
          la \in Lookaheads :
         /\ probes = <<Probe_init(n, ss, sc, TRUE, la, 0)>>
         /\ counter = Probe_init_counter(n, 0)
    /\ stream \in Streams
    /\ context \in Contexts
    /\ out = <<>>
    /\ last = "Probe.__init__"
    /\ ret = PyNone
    /\ DebuggerIdle

ProbeParse ==
    LET r == Probe_parse(probes[1], stream, context)
    IN  /\ stream' = r.stream
        /\ context' = r.context
        /\ out' = r.out
        /\ ret' = r.ret
        /\ last' = "Probe._parse"
        /\ UNCHANGED <<counter, probes>>
        /\ UNCHANGED debugVars

ProbeBuild ==
    \E obj \in {"None", "obj"} :
        LET r == Probe_build(probes[1], obj, stream, context)
        IN  /\ stream' = r.stream
            /\ context' = r.context
            /\ out' = r.out
            /\ ret' = r.ret
            /\ last' = "Probe._build"
            /\ UNCHANGED <<counter, probes>>
            /\ UNCHANGED debugVars

ProbeSizeof ==
    /\ ret' = PyInt(Probe_sizeof(probes[1], context))
    /\ last' = "Probe._sizeof"
    /\ UNCHANGED <<counter, probes, stream, context, out>>
    /\ UNCHANGED debugVars

NextProbe == ProbeParse \/ ProbeBuild \/ ProbeSizeof

SpecProbe == InitProbe /\ [][NextProbe]_vars


----------------------------------------------------------------------------
(* Debugger *)

\* write(w) at the cursor: overwrites, extends, and pads with zero bytes
\* when the cursor sits past the end.
write(s, w) ==
    LET len    == Len(s.data)
        padded == IF s.pos > len
                  THEN s.data \o [i \in 1..(s.pos - len) |-> 0]
                  ELSE s.data
        endp   == s.pos + Len(w)
    IN  [data |-> SubSeq(padded, 1, s.pos) \o w
                  \o SubSeq(padded, endp + 1, Len(padded)),
         pos  |-> endp]

\* The exceptions a subcon may raise. RangeError and StopIteration derive
\* from Exception; KeyboardInterrupt derives from BaseException only.
Excs ==
    {[cls |-> "RangeError", msg |-> "expected from 3 to 3 elements, found 0"],
     [cls |-> "RangeError", msg |-> "expected from 1 to 2 elements, found 0"],
     [cls |-> "StopIteration", msg |-> ""],
     [cls |-> "KeyboardInterrupt", msg |-> ""]}

\* isinstance(e, Exception)
IsException(e) == e.cls \in {"RangeError", "StopIteration"}

\* Values a subcon's parse may return
ParseValues == {"v1", "v2"}

\* Values the operator may assign to self.retval inside pdb
SlotValues == ParseValues \cup {"NotImplemented"}

Return(v) == [kind |-> "return", val |-> v, exc |-> NoExc]
Raise(e) == [kind |-> "raise", val |-> "", exc |-> e]

\* The subcon is an external collaborator: its _parse consumes some bytes and
\* then returns a value or raises; its _build writes some bytes and then
\* returns or raises.
SubconParse(s) ==
    {[kind |-> k.kind, val |-> k.val, exc |-> k.exc, stream |-> read(s, n).stream] :
        n \in 0..1,
        k \in {Return(v) : v \in ParseValues} \cup {Raise(e) : e \in Excs}}

SubconBuild(obj, s) ==
    {[kind |-> k.kind, val |-> k.val, exc |-> k.exc, stream |-> write(s, w)] :
        w \in {x \in SeqsUpTo(ByteVals, 1) : s.pos + Len(x) <= MaxStreamLen},
        k \in {Return("None")} \cup {Raise(e) : e \in Excs}}

ParseHint == Named("(you can set the value of 'self.retval', which will be returned)")
NoHint == [given |-> FALSE, val |-> ""]

\* Variant: the except clause names one error class only.
Catches_RangeError(e) == e.cls = "RangeError"

\* The except clause of _parse and _build: "except Exception"
Catches(e) == IsException(e)

\* Variant: pdb is entered before the diagnostics are printed.
handle_exc_enter_pdbfirst(subcon, e, msg) ==
    <<Separator,
      [kind |-> "pdb.post_mortem", exc |-> e],
      [kind |-> "debugging", subcon |-> subcon],
      [kind |-> "traceback", exc |-> e]>>
    \o (IF msg.given /\ msg.val # "" THEN <<[kind |-> "msg", text |-> msg.val]>>
        ELSE <<>>)

\* handle_exc up to and including the call of pdb.post_mortem
handle_exc_enter(subcon, e, msg) ==
    <<Separator,
      [kind |-> "debugging", subcon |-> subcon],
      [kind |-> "traceback", exc |-> e]>>
    \o (IF msg.given /\ msg.val # "" THEN <<[kind |-> "msg", text |-> msg.val]>>
        ELSE <<>>)
    \o <<[kind |-> "pdb.post_mortem", exc |-> e]>>

\* handle_exc after pdb.post_mortem has returned
handle_exc_exit(o) == o \o <<Separator>>

\* Variant: the slot is reset before the subcon is tried.
Debugger_parse_ok_reset(o, rv) ==
    [result |-> Return(o.val), retval |-> "NotImplemented", out |-> <<>>]

\* _parse, the try body returned: the subcon's value is returned as it is
Debugger_parse_ok(o, rv) ==
    [result |-> Return(o.val), retval |-> rv, out |-> <<>>]

\* _build, the try body returned: _build falls off its end
Debugger_build_ok(o, rv) ==
    [result |-> Return("None"), retval |-> rv, out |-> <<>>]

\* Variant: the handler does not reset the slot.
Debugger_parse_reset_missing(rv) == rv

\* _parse, first statement of the handler: self.retval = NotImplemented
Debugger_parse_reset(rv) == "NotImplemented"

\* Variant: the test of the slot is inverted.
Debugger_parse_decide_inverted(rv, e) ==
    IF rv # "NotImplemented" THEN Raise(e) ELSE Return(rv)

\* Variant: the slot is never read; the error is always re-raised.
Debugger_parse_decide_raise(rv, e) == Raise(e)

\* _parse after handle_exc returned: "raise" or "return self.retval"
Debugger_parse_decide(rv, e) ==
    IF rv = "NotImplemented" THEN Raise(e) ELSE Return(rv)

\* _build after handle_exc returned: the handler ends, _build returns None
Debugger_build_decide(rv, e) == Return("None")

InitDebugger ==
    /\ counter = 0
    /\ probes = <<>>
    /\ stream \in {s \in Streams : s.pos <= Len(s.data)}
    /\ context \in {<<>>}
    /\ out = <<>>
    /\ last = "none"
    /\ ret = PyNone
    /\ DebuggerIdle

\* Debugger._parse, up to its return or to the pdb prompt
Debugger_parse ==
    /\ pc = "idle"
    /\ \E o \in SubconParse(stream) :
         /\ sub' = o
         /\ stream' = o.stream
         /\ IF o.kind = "return"
            THEN LET r == Debugger_parse_ok(o, retval)
                 IN  /\ result' = r.result
                     /\ retval' = r.retval
                     /\ out' = r.out
                     /\ exc' = NoExc
                     /\ pc' = "idle"
            ELSE IF ~Catches(o.exc)
            THEN /\ result' = Raise(o.exc)
                 /\ out' = <<>>
                 /\ exc' = NoExc
                 /\ pc' = "idle"
                 /\ UNCHANGED retval
            ELSE /\ retval' = Debugger_parse_reset(retval)
                 /\ out' = handle_exc_enter("subcon", o.exc, ParseHint)
                 /\ exc' = o.exc
                 /\ result' = Pending
                 /\ pc' = "session"
    /\ op' = "parse"
    /\ written' = "<none>"
    /\ UNCHANGED <<counter, probes, context, last, ret>>

\* Debugger._build, up to its return or to the pdb prompt
Debugger_build ==
    /\ pc = "idle"
    /\ \E obj \in {"obj"} : \E o \in SubconBuild(obj, stream) :
         /\ sub' = o
         /\ stream' = o.stream
         /\ IF o.kind = "return"
            THEN LET r == Debugger_build_ok(o, retval)
                 IN  /\ result' = r.result
                     /\ retval' = r.retval
                     /\ out' = r.out
                     /\ exc' = NoExc
                     /\ pc' = "idle"
            ELSE IF ~Catches(o.exc)
            THEN /\ result' = Raise(o.exc)
                 /\ out' = <<>>
                 /\ exc' = NoExc
                 /\ pc' = "idle"
                 /\ UNCHANGED retval
            ELSE /\ out' = handle_exc_enter("subcon", o.exc, NoHint)
                 /\ exc' = o.exc
                 /\ result' = Pending
                 /\ pc' = "session"
                 /\ UNCHANGED retval
    /\ op' = "build"
    /\ written' = "<none>"
    /\ UNCHANGED <<counter, probes, context, last, ret>>

\* Inside pdb the operator assigns self.retval (any number of times)
OperatorSetRetval ==
    /\ pc = "session"
    /\ \E v \in SlotValues :
         /\ retval' = v
         /\ written' = v
    /\ UNCHANGED <<counter, probes, stream, context, out, last, ret,
                   pc, op, exc, sub, result>>

\* The operator leaves pdb: handle_exc prints the closing separator and
\* returns, and _parse / _build run to their end
SessionExit ==
    /\ pc = "session"
    /\ out' = handle_exc_exit(out)
    /\ result' = IF op = "parse" THEN Debugger_parse_decide(retval, exc)
                 ELSE Debugger_build_decide(retval, exc)
    /\ exc' = NoExc
    /\ pc' = "idle"
    /\ UNCHANGED <<counter, probes, stream, context, last, ret,
                   op, retval, sub, written>>

NextDebugger ==
    Debugger_parse \/ Debugger_build \/ OperatorSetRetval \/ SessionExit

SpecDebugger == InitDebugger /\ [][NextDebugger]_vars


----------------------------------------------------------------------------
(* Properties *)

\* A failing invocation: the subcon raised. Handled: the Debugger caught it.
SubconRaised == sub.kind = "raise"
Finished == pc = "idle" /\ op \in {"parse", "build"}
SessionEntered == \E i \in 1..Len(out) : out[i].kind = "pdb.post_mortem"

\* C1: whenever the subcon's build raises E, Debugger's build re-raises E to
\* its caller once the session is over; a failing build never returns normally.
C1_BuildReraises ==
    (Finished /\ op = "build" /\ SubconRaised) => result = Raise(sub.exc)

\* C2: whenever the subcon's parse raises E and the operator leaves the
\* session without assigning retval, Debugger's parse re-raises exactly E
\* (same class, same message) and returns no value.
C2_ParseReraisesExactly ==
    (Finished /\ op = "parse" /\ SubconRaised /\ written = "<none>")
        => result = Raise(sub.exc)

C2_Witness ==
    /\ Finished /\ op = "parse" /\ SubconRaised /\ written = "<none>"
    /\ SessionEntered
    /\ sub.exc.cls = "RangeError"
    /\ result = Raise(sub.exc)

\* C3 as stated: whenever the subcon's parse raises and the operator sets
\* retval to V, for every value V, Debugger's parse returns V and does not
\* re-raise.
C3_AnyValueReturned ==
    (Finished /\ op = "parse" /\ SubconRaised /\ written # "<none>")
        => result = Return(written)

\* C3 amended: whenever the subcon's parse raises and the operator sets retval
\* to a value V other than NotImplemented, Debugger's parse returns V and does
\* not re-raise.
C3_SubstituteReturned ==
    (Finished /\ op = "parse" /\ SubconRaised
        /\ written \notin {"<none>", "NotImplemented"})
        => result = Return(written)

C3_Witness ==
    /\ Finished /\ op = "parse" /\ SubconRaised
    /\ SessionEntered
    /\ written = "v2"
    /\ result = Return("v2")

\* C4 as stated: the slot is reset to the sentinel at the start of every
\* parse invocation.
C4_ResetAtEveryParse ==
    [][(pc = "idle" /\ op' = "parse") => retval' = "NotImplemented"]_vars

\* C4 amended: the slot is reset to the sentinel whenever the subcon's parse
\* raises a caught error, before the session starts, so the session of a parse
\* starts with the sentinel in the slot; and a parse whose subcon raised returns
\* a value only if the operator assigned that value in the same invocation's
\* session.
C4_NoStaleSubstitute ==
    /\ (pc = "session" /\ op = "parse" /\ written = "<none>")
           => retval = "NotImplemented"
    /\ (Finished /\ op = "parse" /\ SubconRaised /\ result.kind = "return")
           => (written # "<none>" /\ result.val = written)

C4_Witness ==
    /\ pc = "session" /\ op = "parse" /\ written = "<none>"
    /\ retval = "NotImplemented"
    /\ SessionEntered

\* C5: when the subcon returns without raising, parse returns the subcon's
\* value unchanged, build returns normally with the stream as the subcon left
\* it, no session is entered, nothing is printed and retval is not touched.
C5_Transparent ==
    [][(pc = "idle" /\ sub'.kind = "return" /\ op' \in {"parse", "build"})
          => /\ pc' = "idle"
             /\ result'.kind = "return"
             /\ (op' = "parse" => result'.val = sub'.val)
             /\ stream' = sub'.stream
             /\ out' = <<>>
             /\ retval' = retval]_vars

C5_Witness ==
    /\ Finished /\ op = "parse" /\ sub.kind = "return"
    /\ result = Return(sub.val)
    /\ retval = "v1"
    /\ out = <<>>

\* C6 as stated: every error the subcon raises, whatever its class, is
\* intercepted: the session is entered before the outcome reaches the caller.
C6_EveryClassIntercepted ==
    (op \in {"parse", "build"} /\ SubconRaised)
        => (SessionEntered /\ (pc = "session" <=> result = Pending))

\* C6 amended: every error the subcon raises that is an instance of Exception
\* is intercepted: the failure-handling procedure runs and the session is
\* entered before the outcome reaches the caller.
C6_ExceptionsIntercepted ==
    (op \in {"parse", "build"} /\ SubconRaised /\ IsException(sub.exc))
        => (SessionEntered /\ (pc = "session" <=> result = Pending))

C6_Witness ==
    /\ Finished /\ op = "build" /\ SubconRaised
    /\ sub.exc.cls = "StopIteration"
    /\ SessionEntered
    /\ result # Pending

\* The lines of a failing invocation, by kind
OutKinds == [i \in 1..Len(out) |-> out[i].kind]

BeforeSession(o) ==
    <<"separator", "debugging", "traceback">>
    \o (IF o = "parse" THEN <<"msg">> ELSE <<>>)
    \o <<"pdb.post_mortem">>

----------------------------------------------------------------------------
(* Properties of Probe *)

ProbeCalls == {"Probe._parse", "Probe._build"}

\* C7: for every context, stream content and cursor position, and for every
\* combination of show_stream and show_context, Probe's parse and build leave
\* the context, the stream bytes and the cursor as they were before the call;
\* Probe's sizeof returns exactly 0.
C7_ProbeFrame ==
    [][/\ last' \in ProbeCalls => (context' = context /\ stream' = stream)
       /\ last' = "Probe._sizeof" => ret' = PyInt(0)]_vars

C7_Witness ==
    /\ last = "Probe._parse"
    /\ probes[1].show_stream /\ probes[1].show_context
    /\ probes[1].stream_lookahead = 2
    /\ stream = [data |-> <<0, 255, 0>>, pos |-> 1]
    /\ context # <<>>
    /\ \E i \in 1..Len(out) : out[i].kind = "hexdump"

\* Reading a printed hex dump back: the bytes its rows show
HexVal(c) == CHOOSE d \in 0..15 : HexChars[d + 1] = c

RowBytes(row) ==
    [j \in 1..Len(row.hex) |-> 16 * HexVal(row.hex[j][1]) + HexVal(row.hex[j][2])]

RECURSIVE RowsBytes(_)
RowsBytes(rows) ==
    IF rows = <<>> THEN <<>>
    ELSE RowBytes(Head(rows)) \o RowsBytes(Tail(rows))

IsHexdump(line) == line.kind = "hexdump"
Hexdumps(o) == SelectSeq(o, IsHexdump)

\* o holds one hex dump, showing exactly the n bytes that follow the cursor of s
DumpsExactly(o, s, n) ==
    /\ Len(Hexdumps(o)) = 1
    /\ LET bytes == RowsBytes(Hexdumps(o)[1].rows)
       IN  /\ Len(bytes) = n
           /\ \A i \in 1..n :
                /\ s.pos + i <= Len(s.data)
                /\ bytes[i] = s.data[s.pos + i]

\* C8 as stated: for every stream_lookahead L >= 0 and every stream of length
\* >= L, a Probe with show_stream prints a hex dump of exactly the L bytes that
\* start at the pre-call cursor, and the cursor ends where it was.
C8_DumpOfLookahead ==
    [][(/\ last' \in ProbeCalls
        /\ probes[1].show_stream
        /\ probes[1].stream_lookahead >= 0
        /\ Len(stream.data) >= probes[1].stream_lookahead)
          => /\ DumpsExactly(out', stream, probes[1].stream_lookahead)
             /\ stream'.pos = stream.pos]_vars

\* C8 amended: for every stream_lookahead L >= 1 and every stream with at
\* least L bytes between the pre-call cursor and its end, a Probe with
\* show_stream prints a hex dump of exactly the L bytes that start at the
\* pre-call cursor, and the cursor ends where it was.
C8_DumpOfAvailableLookahead ==
    [][(/\ last' \in ProbeCalls
        /\ probes[1].show_stream
        /\ probes[1].stream_lookahead >= 1
        /\ Len(stream.data) - stream.pos >= probes[1].stream_lookahead)
          => /\ DumpsExactly(out', stream, probes[1].stream_lookahead)
             /\ stream'.pos = stream.pos]_vars

C8_Witness ==
    /\ last = "Probe._build"
    /\ probes[1].show_stream
    /\ probes[1].stream_lookahead = 2
    /\ stream = [data |-> <<0, 255, 255>>, pos |-> 1]
    /\ DumpsExactly(out, stream, 2)
    /\ RowsBytes(Hexdumps(out)[1].rows) = <<255, 255>>

\* Reading an auto-generated name back: the number it embeds
DigitVal(c) == CHOOSE d \in 0..9 : DigitChars[d + 1] = c

RECURSIVE ParseD(_)
ParseD(digits) ==
    IF Len(digits) = 0 THEN 0
    ELSE 10 * ParseD(SubSeq(digits, 1, Len(digits) - 1))
         + DigitVal(digits[Len(digits)])

NameNumber(name) == ParseD(SubSeq(name, 10, Len(name) - 1))

Unnamed == {i \in 1..Len(probes) : ~probes[i].name_arg.given}

\* C9: after any sequence of constructions, with and without an explicit name,
\* any two Probes constructed without a name have distinct auto-generated
\* names, the number in the name strictly increases in construction order, and
\* the shared counter never decreases and is never reset.
C9_UniqueIncreasingNames ==
    /\ [](\A i \in Unnamed : \A j \in Unnamed :
            i < j => /\ probes[i].printname # probes[j].printname
                     /\ NameNumber(probes[i].printname)
                            < NameNumber(probes[j].printname))
    /\ [](counter = Cardinality(Unnamed))
    /\ [][counter' >= counter /\ (counter > 0 => counter' > 0)]_vars

C9_Witness ==
    /\ Len(probes) = 11
    /\ Cardinality(Unnamed) = 10
    /\ probes[1].name_arg.given
    /\ probes[2].printname = UnnamedName(1)
    /\ probes[11].printname = UnnamedName(10)
    /\ NameNumber(probes[11].printname) = 10

====
